---- MODULE Spec2Model ----
(***************************************************************************)
(* Model of main.py: the rate scraper (scrape_and_cache_rates), the cache  *)
(* app.state.rates, the startup hook (lifespan), the 4-hour interval job   *)
(* and the query handler get_rates.                                        *)
(*                                                                         *)
(* Texts are sequences of one-character strings, so that strip, float      *)
(* parsing, formatting and the regular expressions are computed character  *)
(* by character.  The three bank names are non-ASCII in the source; the    *)
(* model writes them as ASCII identifiers (see BankNames).                 *)
(***************************************************************************)
EXTENDS Integers, Sequences, FiniteSets, TLC

(***************************************************************************)
(* Characters and elementary text operations                               *)
(***************************************************************************)
Digits == {"0", "1", "2", "3", "4", "5", "6", "7", "8", "9"}

DigitChars == <<"0", "1", "2", "3", "4", "5", "6", "7", "8", "9">>

DigitVal(c) == (CHOOSE i \in 1..10 : DigitChars[i] = c) - 1

AllDigits(s) == \A i \in 1..Len(s) : s[i] \in Digits

NA == <<"N", "/", "A">>

Loading == <<"L", "o", "a", "d", "i", "n", "g", ".", ".", ".">>

RECURSIVE Pow(_, _)
Pow(b, n) == IF n = 0 THEN 1 ELSE b * Pow(b, n - 1)

RECURSIVE PowMod(_, _, _)
PowMod(b, n, m) == IF n = 0 THEN 1 % m ELSE (b * PowMod(b, n - 1, m)) % m

RECURSIVE DigitsToNat(_)
DigitsToNat(s) ==
    IF Len(s) = 0 THEN 0
    ELSE 10 * DigitsToNat(SubSeq(s, 1, Len(s) - 1)) + DigitVal(s[Len(s)])

RECURSIVE NatToDigits(_)
NatToDigits(n) ==
    IF n < 10 THEN <<DigitChars[n + 1]>>
    ELSE Append(NatToDigits(n \div 10), DigitChars[(n % 10) + 1])

\* str.strip(c): drop every leading and every trailing occurrence of c
RECURSIVE StripChar(_, _)
StripChar(s, c) ==
    IF Len(s) = 0 THEN s
    ELSE IF s[1] = c THEN StripChar(Tail(s), c)
    ELSE IF s[Len(s)] = c THEN StripChar(SubSeq(s, 1, Len(s) - 1), c)
    ELSE s

\* Python's "{:02d}" of a non-negative int: at least two digits
Pad2(n) == IF n < 10 THEN <<"0">> \o NatToDigits(n) ELSE NatToDigits(n)

Contains(s, c) == \E i \in 1..Len(s) : s[i] = c

(***************************************************************************)
(* format_rate: float(rate_str) and f"{rate_float:.2f}"                    *)
(***************************************************************************)
\* float() of a decimal literal: surrounding blanks dropped, optional sign,
\* digits with at most one point and at least one digit; also inf and nan.
\* Exponents and digit-group underscores are outside the alphabet of the
\* texts used here.  The literal denotes mant / 10^frac.
ParseFloat(rate_str) ==
    LET t    == StripChar(rate_str, " ")
        sgn  == Len(t) > 0 /\ t[1] \in {"-", "+"}
        body == IF sgn THEN Tail(t) ELSE t
        neg  == sgn /\ t[1] = "-"
        dots == {i \in 1..Len(body) : body[i] = "."}
        dot  == IF dots = {} THEN Len(body) + 1 ELSE CHOOSE i \in dots : TRUE
        ip   == SubSeq(body, 1, dot - 1)
        fp   == SubSeq(body, dot + 1, Len(body))
    IN  IF body \in {<<"i", "n", "f">>, <<"i", "n", "f", "i", "n", "i", "t", "y">>}
          THEN [ok |-> TRUE, kind |-> "inf", neg |-> neg, mant |-> 0, frac |-> 0]
        ELSE IF body = <<"n", "a", "n">>
          THEN [ok |-> TRUE, kind |-> "nan", neg |-> neg, mant |-> 0, frac |-> 0]
        ELSE IF /\ Cardinality(dots) <= 1
                /\ AllDigits(ip) /\ AllDigits(fp)
                /\ Len(ip) + Len(fp) >= 1
          THEN [ok |-> TRUE, kind |-> "num", neg |-> neg,
                mant |-> DigitsToNat(ip \o fp), frac |-> Len(fp)]
        ELSE [ok |-> FALSE, kind |-> "err", neg |-> FALSE, mant |-> 0, frac |-> 0]

\* the binary exponent j of mant / 10^frac > 0: 2^j <= mant / 10^frac < 2^(j+1)
RECURSIVE Log2Floor(_, _)
Log2Floor(num, den) ==
    IF num < den THEN Log2Floor(2 * num, den) - 1
    ELSE IF num >= 2 * den THEN Log2Floor(num, 2 * den) + 1
    ELSE 0

\* Sign of (the IEEE double nearest to mant / 10^frac) - mant / 10^frac.  The
\* double is m / 2^e with m = mant * 2^(e - frac) / 5^frac rounded to an
\* integer of 53 bits, e = 52 - j; only the remainder modulo 5^frac decides.
DoubleCmp(mant, frac) ==
    LET five == Pow(5, frac)
        e    == 52 - Log2Floor(mant, Pow(10, frac))
        r    == ((mant % five) * PowMod(2, e - frac, five)) % five
    IN  IF r = 0 THEN 0 ELSE IF 2 * r < five THEN -1 ELSE 1

\* variant: the decimal literal rounded half up
HundredthsHalfUp(mant, frac) ==
    IF frac <= 2 THEN mant * Pow(10, 2 - frac)
    ELSE LET unit == Pow(10, frac - 2)
         IN  IF 2 * (mant % unit) >= unit THEN (mant \div unit) + 1
             ELSE mant \div unit

\* hundredths of the double, correctly rounded, ties to even ("%.2f")
Hundredths(mant, frac) ==
    IF frac <= 2 THEN mant * Pow(10, 2 - frac)
    ELSE LET unit == Pow(10, frac - 2)
             q    == mant \div unit
             rem  == mant % unit
             half == unit \div 2
         IN  IF rem < half THEN q
             ELSE IF rem > half THEN q + 1
             ELSE LET c == DoubleCmp(mant, frac)
                  IN  IF c > 0 THEN q + 1
                      ELSE IF c < 0 THEN q
                      ELSE IF q % 2 = 0 THEN q ELSE q + 1

FormatFixed2(p) ==
    LET h == Hundredths(p.mant, p.frac)
    IN  (IF p.neg THEN <<"-">> ELSE <<>>)
        \o NatToDigits(h \div 100) \o <<".">> \o Pad2(h % 100)

format_rate(rate_str) ==
    LET p == ParseFloat(rate_str)
    IN  IF ~p.ok THEN rate_str
        ELSE IF p.kind = "nan" THEN <<"n", "a", "n">>
        ELSE IF p.kind = "inf"
          THEN (IF p.neg THEN <<"-">> ELSE <<>>) \o <<"i", "n", "f">>
        ELSE FormatFixed2(p)

(***************************************************************************)
(* Date extraction: the regular expressions of the four sources            *)
(***************************************************************************)
IsDigitAt(s, i) == i >= 1 /\ i <= Len(s) /\ s[i] \in Digits

IsCharAt(s, i, c) == i >= 1 /\ i <= Len(s) /\ s[i] = c

Min(S) == CHOOSE x \in S : \A y \in S : x <= y

\* positions where (\d{2})/(\d{2})/(\d{4}) matches
MatchesDMY(s) ==
    {i \in 1..Len(s) :
        /\ IsDigitAt(s, i) /\ IsDigitAt(s, i + 1) /\ IsCharAt(s, i + 2, "/")
        /\ IsDigitAt(s, i + 3) /\ IsDigitAt(s, i + 4) /\ IsCharAt(s, i + 5, "/")
        /\ \A d \in 6..9 : IsDigitAt(s, i + d)}

\* variant: the last match instead of the first
DateFromLastDMY(text) ==
    IF MatchesDMY(text) = {} THEN NA
    ELSE LET i == CHOOSE x \in MatchesDMY(text) : \A y \in MatchesDMY(text) : y <= x
         IN  SubSeq(text, i + 6, i + 9) \o <<"-">> \o SubSeq(text, i + 3, i + 4)
             \o <<"-">> \o SubSeq(text, i, i + 1)

\* re.search(DD/MM/YYYY) and f"{group(3)}-{group(2)}-{group(1)}", else "N/A"
DateFromDMY(text) ==
    IF MatchesDMY(text) = {} THEN NA
    ELSE LET i == Min(MatchesDMY(text))
         IN  SubSeq(text, i + 6, i + 9) \o <<"-">> \o SubSeq(text, i + 3, i + 4)
             \o <<"-">> \o SubSeq(text, i, i + 1)

\* positions where (\d{4}-\d{2}-\d{2}) matches
MatchesYMD(s) ==
    {i \in 1..Len(s) :
        /\ \A d \in 0..3 : IsDigitAt(s, i + d)
        /\ IsCharAt(s, i + 4, "-")
        /\ IsDigitAt(s, i + 5) /\ IsDigitAt(s, i + 6) /\ IsCharAt(s, i + 7, "-")
        /\ IsDigitAt(s, i + 8) /\ IsDigitAt(s, i + 9)}

\* re.search(YYYY-MM-DD) and group(1), else "N/A"
DateFromYMD(text) ==
    IF MatchesYMD(text) = {} THEN NA
    ELSE LET i == Min(MatchesYMD(text)) IN SubSeq(text, i, i + 9)

\* positions where \d{4} matches
MatchesYear(s) == {i \in 1..Len(s) : \A d \in 0..3 : IsDigitAt(s, i + d)}

\* re.findall(r'\d+'): the maximal runs of digits, left to right
RECURSIVE FindNumbers(_)
FindNumbers(s) ==
    IF Len(s) = 0 THEN <<>>
    ELSE IF s[1] \notin Digits THEN FindNumbers(Tail(s))
    ELSE LET stop == IF \E i \in 1..Len(s) : s[i] \notin Digits
                     THEN Min({i \in 1..Len(s) : s[i] \notin Digits})
                     ELSE Len(s) + 1
         IN  <<SubSeq(s, 1, stop - 1)>> \o FindNumbers(SubSeq(s, stop, Len(s)))

\* variant: the first number taken as the day
HiborDateDayFirst(year_text, date_text) ==
    LET year       == SubSeq(year_text, Min(MatchesYear(year_text)),
                             Min(MatchesYear(year_text)) + 3)
        date_parts == FindNumbers(date_text)
    IN  IF Len(date_parts) = 2
        THEN year \o <<"-">> \o Pad2(DigitsToNat(date_parts[2]))
             \o <<"-">> \o Pad2(DigitsToNat(date_parts[1]))
        ELSE NA

\* the HIBOR date: year of the header cell, two numbers of the first cell
HiborDate(year_text, date_text) ==
    LET year       == SubSeq(year_text, Min(MatchesYear(year_text)),
                             Min(MatchesYear(year_text)) + 3)
        date_parts == FindNumbers(date_text)
    IN  IF Len(date_parts) = 2
        THEN year \o <<"-">> \o Pad2(DigitsToNat(date_parts[1]))
             \o <<"-">> \o Pad2(DigitsToNat(date_parts[2]))
        ELSE NA

(***************************************************************************)
(* Bounds                                                                  *)
(***************************************************************************)
\* get_rates requests that may be waiting for the event loop at once
MaxPending == 1

\* sessions the remote browser endpoint holds open before it refuses more
MaxSessions == 2

\* longest rate text given to format_rate on its own
MaxRateLen == 5

(***************************************************************************)
(* Fixed data of the cycle and of the query handler                        *)
(***************************************************************************)
\* the bankName values of prime_rate_data, in the order of the source
\* (bank A, bank B, bank C), written in ASCII
BankNames == <<"AirstarBank", "OCBCWingHang", "ICBCAsia">>

Banks == 1..3

\* variant: the list constructed with bank C first
SeedPrimeRateDataReordered ==
    [i \in Banks |-> [bankName |-> BankNames[IF i = 1 THEN 3 ELSE i - 1],
                      primeRateValue |-> NA, bankUpdateDate |-> NA]]

\* the prime_rate_data list as constructed at the start of a cycle
SeedPrimeRateData ==
    [i \in Banks |-> [bankName |-> BankNames[i], primeRateValue |-> NA,
                      bankUpdateDate |-> NA]]

\* the hibor_data dict as constructed at the start of a cycle
SeedHiborData == [HIBOR_value |-> NA, lastUpdateDate |-> NA]

\* the literal returned by get_rates while the cache is empty
Placeholder ==
    [primeRate |-> [i \in Banks |-> [bankName |-> BankNames[i],
                                     primeRateValue |-> Loading,
                                     bankUpdateDate |-> Loading]],
     HIBOR |-> [HIBOR_value |-> Loading, lastUpdateDate |-> Loading]]

(***************************************************************************)
(* Page contents the remote browser may show (rate cell, date cell, and    *)
(* for HIBOR the header cell holding the year)                             *)
(***************************************************************************)
PagesA ==
    { [rate |-> <<"5", ".", "1", "2", "5", "%">>,
       date |-> <<"2", "5", "/", "0", "3", "/", "2", "0", "2", "4">>],
      [rate |-> <<"-">>, date |-> <<"T", "B", "C">>],
      [rate |-> Loading,
       date |-> <<"2", "5", "/", "0", "3", "/", "2", "0", "2", "4">>] }

PagesB ==
    { [rate |-> <<"5", ".", "2", "5">>,
       date |-> <<"2", "0", "2", "4", "-", "0", "3", "-", "2", "5">>],
      [rate |-> <<"5", ".", "2", "5", "%">>, date |-> <<"2", "5", " ", "M", "a", "r">>] }

PagesC ==
    { [rate |-> <<"5", ".", "3", "7", "5">>,
       date |-> <<"2", "5", "/", "0", "3", "/", "2", "0", "2", "4">>],
      [rate |-> <<"5", ".", "5", "%">>, date |-> <<"1", "/", "2", "/", "2", "0", "2", "4">>],
      [rate |-> <<"5", ".", "5">>, date |-> <<"T", "B", "C">>] }

PagesHibor ==
    { [rate |-> <<"4", ".", "1", "2", "5", "%">>, year |-> <<"2", "0", "2", "4">>,
       date |-> <<"3", "-", "2", "5">>],
      [rate |-> <<"4", ".", "5", "%", " ", "*">>, year |-> <<"2", "0", "2", "4">>,
       date |-> <<"2", "5">>],
      [rate |-> <<"4", ".", "5", "%">>, year |-> <<"F", "Y", "2", "4">>,
       date |-> <<"3", "-", "2", "5">>],
      [rate |-> <<"4", ".", "5">>, year |-> <<"2", "0", "2", "4">>,
       date |-> <<"3", "-", "2", "5">>] }

(***************************************************************************)
(* State                                                                   *)
(***************************************************************************)
VARIABLES
    phase,            \* "init", "startup" (lifespan before yield), "serving",
                      \* "failed" (lifespan raised), "stopped"
    pc,               \* position of scrape_and_cache_rates; "idle": the event
                      \* loop is free
    driver,           \* local driver: "None" or "WebDriver"
    openSessions,     \* sessions open at the remote browser endpoint
    rates,            \* app.state.rates: <<>> is the empty dict
    prime_rate_data,  \* local list of the cycle (<<>> outside a cycle)
    hibor_data,       \* local dict of the cycle
    pending,          \* get_rates requests received and not yet run
    response,         \* <<r>>: r returned by the last get_rates call since
                      \* the latest cycle began; <<>>: none
    prior,            \* history: app.state.rates when the latest cycle began
    published,        \* history: <<s>> if the latest cycle assigned s to the
                      \* cache, else <<>>
    log,              \* history: what happened in the latest cycle
    fn,               \* text functions on their own: the function applied
                      \* ("none" before)
    text,             \* its input texts
    result            \* what it returned

vars == <<phase, pc, driver, openSessions, rates, prime_rate_data, hibor_data,
          pending, response, prior, published, log, fn, text, result>>

\* the variables of the text functions, untouched by the service
pure == <<fn, text, result>>

NoText == [kind |-> "none", rate |-> <<>>, year |-> <<>>, date |-> <<>>]

\* a source together with the page it showed, or with no page at all
Sources == 1..4

NoPages == [s \in Sources |-> <<>>]

NewLog == [session |-> "none", navOk |-> {}, navFailed |-> 0,
           page |-> NoPages, scrapeFailed |-> {},
           quit |-> "none", outcome |-> "running", arrivedInCycle |-> FALSE,
           inFlight |-> 0, everPublished |-> FALSE]

NoHiborData == [HIBOR_value |-> <<>>, lastUpdateDate |-> <<>>]

Init ==
    /\ phase = "init"
    /\ pc = "idle"
    /\ driver = "None"
    /\ openSessions = 0
    /\ rates = <<>>
    /\ prime_rate_data = <<>>
    /\ hibor_data = NoHiborData
    /\ pending = 0
    /\ response = <<>>
    /\ prior = <<>>
    /\ published = <<>>
    /\ log = NewLog
    /\ fn = "none"
    /\ text = NoText
    /\ result = <<>>

(***************************************************************************)
(* scrape_and_cache_rates                                                  *)
(***************************************************************************)
\* entry of the coroutine up to "driver = None"; it has no await, so from
\* here to its return the event loop runs nothing else
BeginCycle(cache) ==
    /\ pc' = "connect"
    /\ driver' = "None"
    /\ prior' = cache
    /\ published' = <<>>
    /\ response' = <<>>
    /\ log' = [log EXCEPT !.session = "none", !.navOk = {}, !.navFailed = 0,
                          !.page = NoPages, !.scrapeFailed = {},
                          !.quit = "none", !.outcome = "running",
                          !.arrivedInCycle = FALSE, !.inFlight = @ + 1]

\* driver = webdriver.Remote(...) returns a session
Connect ==
    /\ pc = "connect"
    /\ openSessions < MaxSessions
    /\ driver' = "WebDriver"
    /\ openSessions' = openSessions + 1
    /\ pc' = "configure"
    /\ log' = [log EXCEPT !.session = "created"]
    /\ UNCHANGED <<phase, rates, prime_rate_data, hibor_data, pending,
                   response, prior, published>>
    /\ UNCHANGED pure

\* variant: the failure path empties the cache
ConnectFailClearsCache ==
    /\ pc = "connect"
    /\ pc' = "finally"
    /\ rates' = <<>>
    /\ log' = [log EXCEPT !.session = "createFailed"]
    /\ UNCHANGED <<phase, driver, openSessions, prime_rate_data,
                   hibor_data, pending, response, prior, published>>
    /\ UNCHANGED pure

\* webdriver.Remote(...) raises: driver stays None, control goes to the
\* top-level except and then to finally
ConnectFail ==
    /\ pc = "connect"
    /\ pc' = "finally"
    /\ log' = [log EXCEPT !.session = "createFailed"]
    /\ UNCHANGED <<phase, driver, openSessions, rates, prime_rate_data,
                   hibor_data, pending, response, prior, published>>
    /\ UNCHANGED pure

\* variant: the records start from the cached snapshot when there is one
ConfigureFromCache ==
    /\ pc = "configure"
    /\ prime_rate_data' = IF rates = <<>> THEN SeedPrimeRateData ELSE rates.primeRate
    /\ hibor_data' = IF rates = <<>> THEN SeedHiborData ELSE rates.HIBOR
    /\ pc' = "get_1"
    /\ log' = [log EXCEPT !.session = "configured"]
    /\ UNCHANGED <<phase, driver, openSessions, rates, pending, response,
                   prior, published>>
    /\ UNCHANGED pure

\* set_page_load_timeout and set_window_size return; the records are seeded
Configure ==
    /\ pc = "configure"
    /\ prime_rate_data' = SeedPrimeRateData
    /\ hibor_data' = SeedHiborData
    /\ pc' = "get_1"
    /\ log' = [log EXCEPT !.session = "configured"]
    /\ UNCHANGED <<phase, driver, openSessions, rates, pending, response,
                   prior, published>>
    /\ UNCHANGED pure

\* set_page_load_timeout or set_window_size raises
ConfigureFail ==
    /\ pc = "configure"
    /\ pc' = "finally"
    /\ log' = [log EXCEPT !.session = "configFailed"]
    /\ UNCHANGED <<phase, driver, openSessions, rates, prime_rate_data,
                   hibor_data, pending, response, prior, published>>
    /\ UNCHANGED pure

GetPc(b) == IF b = 1 THEN "get_1" ELSE IF b = 2 THEN "get_2" ELSE "get_3"

ScrapePc(b) == IF b = 1 THEN "scrape_1" ELSE IF b = 2 THEN "scrape_2" ELSE "scrape_3"

AfterPc(b) == IF b = 1 THEN "get_2" ELSE IF b = 2 THEN "get_3" ELSE "get_hibor"

\* driver.get(url) of a bank returns
Navigate(b) ==
    /\ pc = GetPc(b)
    /\ pc' = ScrapePc(b)
    /\ log' = [log EXCEPT !.navOk = @ \cup {b}]
    /\ UNCHANGED <<phase, driver, openSessions, rates, prime_rate_data,
                   hibor_data, pending, response, prior, published>>
    /\ UNCHANGED pure

\* variant: the aborted cycle leaves the cache empty
NavigateFailClearsCache(b) ==
    /\ pc = GetPc(b)
    /\ pc' = "finally"
    /\ rates' = <<>>
    /\ log' = [log EXCEPT !.navFailed = b]
    /\ UNCHANGED <<phase, driver, openSessions, prime_rate_data,
                   hibor_data, pending, response, prior, published>>
    /\ UNCHANGED pure

\* driver.get(url) of a bank raises: the call is outside the bank's try, so
\* the loop is left for the top-level except
NavigateFail(b) ==
    /\ pc = GetPc(b)
    /\ pc' = "finally"
    /\ log' = [log EXCEPT !.navFailed = b]
    /\ UNCHANGED <<phase, driver, openSessions, rates, prime_rate_data,
                   hibor_data, pending, response, prior, published>>
    /\ UNCHANGED pure

\* variant: the update also writes the record into the cached snapshot
UpdateRateItemInCache(b, value, date) ==
    /\ prime_rate_data' = [prime_rate_data EXCEPT ![b].primeRateValue = value,
                                                  ![b].bankUpdateDate = date]
    /\ rates' = IF rates = <<>> THEN rates
                ELSE [rates EXCEPT !.primeRate[b].primeRateValue = value,
                                   !.primeRate[b].bankUpdateDate = date]

\* rate_item.update({...}) on the cycle's own list
UpdateRateItem(b, value, date) ==
    /\ prime_rate_data' = [prime_rate_data EXCEPT ![b].primeRateValue = value,
                                                  ![b].bankUpdateDate = date]
    /\ UNCHANGED rates

\* "except Exception as e: logging.error(...)" of a source's block; shown
\* is <<page>> when the page was rendered, <<>> when an element never came
ScrapeError(s, shown) ==
    /\ log' = [log EXCEPT !.scrapeFailed = @ \cup {s}, !.page[s] = shown]
    /\ UNCHANGED <<rates, prime_rate_data, hibor_data>>

\* a bank's try block on a rendered page: update on success, else the except
StoreRateItem(b, page, r) ==
    IF r.ok
    THEN /\ UpdateRateItem(b, r.value, r.date)
         /\ log' = [log EXCEPT !.page[b] = <<page>>]
         /\ UNCHANGED hibor_data
    ELSE ScrapeError(b, <<page>>)

\* what a try block leaves when one of its calls raised
Raised == [ok |-> FALSE, value |-> NA, date |-> NA]

\* bank A: both elements present; strip('%'), format_rate, DD/MM/YYYY
BankABlock(page) ==
    [ok |-> TRUE, value |-> format_rate(StripChar(page.rate, "%")),
     date |-> DateFromDMY(page.date)]

\* bank B: date by YYYY-MM-DD, rate without strip
BankBBlock(page) ==
    [ok |-> TRUE, value |-> format_rate(page.rate), date |-> DateFromYMD(page.date)]

\* bank C: the wait for "/" in the date element times out without it
BankCBlock(page) ==
    IF Contains(page.date, "/")
    THEN [ok |-> TRUE, value |-> format_rate(page.rate),
          date |-> DateFromDMY(page.date)]
    ELSE Raised

ScrapeBankA ==
    /\ pc = ScrapePc(1)
    /\ pc' = AfterPc(1)
    /\ \/ \E page \in PagesA : StoreRateItem(1, page, BankABlock(page))
       \/ ScrapeError(1, <<>>)
    /\ UNCHANGED <<phase, driver, openSessions, pending, response, prior,
                   published>>
    /\ UNCHANGED pure

ScrapeBankB ==
    /\ pc = ScrapePc(2)
    /\ pc' = AfterPc(2)
    /\ \/ \E page \in PagesB : StoreRateItem(2, page, BankBBlock(page))
       \/ ScrapeError(2, <<>>)
    /\ UNCHANGED <<phase, driver, openSessions, pending, response, prior,
                   published>>
    /\ UNCHANGED pure

ScrapeBankC ==
    /\ pc = ScrapePc(3)
    /\ pc' = AfterPc(3)
    /\ \/ \E page \in PagesC : StoreRateItem(3, page, BankCBlock(page))
       \/ ScrapeError(3, <<>>)
    /\ UNCHANGED <<phase, driver, openSessions, pending, response, prior,
                   published>>
    /\ UNCHANGED pure

\* driver.get(hibor_url) returns
NavigateHibor ==
    /\ pc = "get_hibor"
    /\ pc' = "scrape_hibor"
    /\ log' = [log EXCEPT !.navOk = @ \cup {4}]
    /\ UNCHANGED <<phase, driver, openSessions, rates, prime_rate_data,
                   hibor_data, pending, response, prior, published>>
    /\ UNCHANGED pure

\* variant: the failure is swallowed and the cycle goes on to publish
NavigateHiborFailPublishes ==
    /\ pc = "get_hibor"
    /\ pc' = "publish"
    /\ log' = [log EXCEPT !.navFailed = 4]
    /\ UNCHANGED <<phase, driver, openSessions, rates, prime_rate_data,
                   hibor_data, pending, response, prior, published>>
    /\ UNCHANGED pure

\* driver.get(hibor_url) raises, outside the HIBOR try
NavigateHiborFail ==
    /\ pc = "get_hibor"
    /\ pc' = "finally"
    /\ log' = [log EXCEPT !.navFailed = 4]
    /\ UNCHANGED <<phase, driver, openSessions, rates, prime_rate_data,
                   hibor_data, pending, response, prior, published>>
    /\ UNCHANGED pure

\* hibor_data.update({...})
UpdateHiborData(value, date) ==
    /\ hibor_data' = [HIBOR_value |-> value, lastUpdateDate |-> date]
    /\ UNCHANGED rates

\* HIBOR: the wait for "%" in the rate cell times out without it; a header
\* without four digits makes re.search(...).group raise; then the date is
\* composed and the rate stripped and formatted
HiborBlock(page) ==
    IF Contains(page.rate, "%") /\ MatchesYear(page.year) # {}
    THEN [ok |-> TRUE, value |-> format_rate(StripChar(page.rate, "%")),
          date |-> HiborDate(page.year, page.date)]
    ELSE Raised

ScrapeHibor ==
    /\ pc = "scrape_hibor"
    /\ pc' = "publish"
    /\ \/ \E page \in PagesHibor :
            LET r == HiborBlock(page)
            IN  IF r.ok
                THEN /\ UpdateHiborData(r.value, r.date)
                     /\ log' = [log EXCEPT !.page[4] = <<page>>]
                     /\ UNCHANGED prime_rate_data
                ELSE ScrapeError(4, <<page>>)
       \/ ScrapeError(4, <<>>)
    /\ UNCHANGED <<phase, driver, openSessions, pending, response, prior,
                   published>>
    /\ UNCHANGED pure

\* app.state.rates = {"primeRate": prime_rate_data, "HIBOR": hibor_data}
Publish ==
    /\ pc = "publish"
    /\ rates' = [primeRate |-> prime_rate_data, HIBOR |-> hibor_data]
    /\ published' = <<rates'>>
    /\ log' = [log EXCEPT !.everPublished = TRUE]
    /\ pc' = "finally"
    /\ UNCHANGED <<phase, driver, openSessions, prime_rate_data, hibor_data,
                   pending, response, prior>>
    /\ UNCHANGED pure

\* the coroutine ends: normally (its caller goes on) or with an exception
\* (lifespan fails before yield; the scheduler's executor logs it)
EndCycle(raised) ==
    /\ pc' = "idle"
    /\ driver' = "None"
    /\ prime_rate_data' = <<>>
    /\ hibor_data' = NoHiborData
    /\ phase' = IF phase = "startup"
                THEN (IF raised THEN "failed" ELSE "serving")
                ELSE phase

\* finally with driver None
FinallySkip ==
    /\ pc = "finally"
    /\ driver = "None"
    /\ EndCycle(FALSE)
    /\ log' = [log EXCEPT !.outcome = "returned", !.inFlight = @ - 1]
    /\ UNCHANGED <<openSessions, rates, pending, response, prior, published>>
    /\ UNCHANGED pure

\* finally: driver.quit() returns
Quit ==
    /\ pc = "finally"
    /\ driver = "WebDriver"
    /\ openSessions' = openSessions - 1
    /\ EndCycle(FALSE)
    /\ log' = [log EXCEPT !.quit = "done", !.outcome = "returned",
                          !.inFlight = @ - 1]
    /\ UNCHANGED <<rates, pending, response, prior, published>>
    /\ UNCHANGED pure

\* finally: driver.quit() raises; nothing catches it and the session it was
\* to end stays open
QuitFail ==
    /\ pc = "finally"
    /\ driver = "WebDriver"
    /\ EndCycle(TRUE)
    /\ log' = [log EXCEPT !.quit = "failed", !.outcome = "raised",
                          !.inFlight = @ - 1]
    /\ UNCHANGED <<openSessions, rates, pending, response, prior, published>>
    /\ UNCHANGED pure

(***************************************************************************)
(* lifespan, the interval job and get_rates                                *)
(***************************************************************************)
\* lifespan up to "await scrape_and_cache_rates()"
Startup ==
    /\ phase = "init"
    /\ phase' = "startup"
    /\ rates' = <<>>
    /\ BeginCycle(rates')
    /\ UNCHANGED <<openSessions, prime_rate_data, hibor_data, pending>>
    /\ UNCHANGED pure

\* the interval job (hours=4) is run by the scheduler on the event loop
IntervalFire ==
    /\ phase = "serving"
    /\ pc = "idle"
    /\ BeginCycle(rates)
    /\ UNCHANGED <<phase, openSessions, rates, prime_rate_data, hibor_data,
                   pending>>
    /\ UNCHANGED pure

\* a client sends GET /get-rates; the server is listening once lifespan
\* has yielded
Arrive ==
    /\ phase = "serving"
    /\ pending < MaxPending
    /\ pending' = pending + 1
    /\ log' = [log EXCEPT !.arrivedInCycle = @ \/ pc # "idle"]
    /\ UNCHANGED <<phase, pc, driver, openSessions, rates, prime_rate_data,
                   hibor_data, response, prior, published>>
    /\ UNCHANGED pure

\* variant: the empty cache is answered with the "N/A" seed records
RatesResponseSeed(cache) ==
    IF cache = <<>> THEN [primeRate |-> SeedPrimeRateData, HIBOR |-> SeedHiborData]
    ELSE cache

\* the body of get_rates on a cache value: "if not app.state.rates"
RatesResponse(cache) == IF cache = <<>> THEN Placeholder ELSE cache

\* the value get_rates returns
get_rates == RatesResponse(rates)

\* variant: the handler stores what it returns in the cache
GetRatesStoring ==
    /\ phase = "serving"
    /\ pc = "idle"
    /\ pending > 0
    /\ pending' = pending - 1
    /\ response' = <<get_rates>>
    /\ rates' = get_rates
    /\ UNCHANGED <<phase, pc, driver, openSessions, prime_rate_data,
                   hibor_data, prior, published, log>>
    /\ UNCHANGED pure

\* the event loop runs the handler of a waiting request
GetRates ==
    /\ phase = "serving"
    /\ pc = "idle"
    /\ pending > 0
    /\ pending' = pending - 1
    /\ response' = <<get_rates>>
    /\ UNCHANGED <<phase, pc, driver, openSessions, rates, prime_rate_data,
                   hibor_data, prior, published, log>>
    /\ UNCHANGED pure

\* lifespan after yield: scheduler.shutdown(); the server has answered the
\* requests it accepted
Shutdown ==
    /\ phase = "serving"
    /\ pc = "idle"
    /\ pending = 0
    /\ phase' = "stopped"
    /\ UNCHANGED <<pc, driver, openSessions, rates, prime_rate_data,
                   hibor_data, pending, response, prior, published, log>>
    /\ UNCHANGED pure

Next ==
    \/ Startup
    \/ IntervalFire
    \/ Connect
    \/ ConnectFail
    \/ Configure
    \/ ConfigureFail
    \/ \E b \in Banks : Navigate(b)
    \/ \E b \in Banks : NavigateFail(b)
    \/ ScrapeBankA
    \/ ScrapeBankB
    \/ ScrapeBankC
    \/ NavigateHibor
    \/ NavigateHiborFail
    \/ ScrapeHibor
    \/ Publish
    \/ FinallySkip
    \/ Quit
    \/ QuitFail
    \/ Arrive
    \/ GetRates
    \/ Shutdown

Spec == Init /\ [][Next]_vars

TypeOK ==
    /\ phase \in {"init", "startup", "serving", "failed", "stopped"}
    /\ driver \in {"None", "WebDriver"}
    /\ openSessions \in 0..MaxSessions
    /\ pending \in 0..MaxPending
    /\ Len(response) <= 1

(***************************************************************************)
(* The text functions on their own: format_rate, the DD/MM/YYYY date and   *)
(* the HIBOR block, applied to texts drawn from bounded sets               *)
(***************************************************************************)
SeqsUpTo(A, n) == UNION {[1..k -> A] : k \in 0..n}

RateAlphabet == {"1", "2", "5", ".", "-", "a", "n"}

RateExamples ==
    { <<>>,
      <<"N", "/", "A">>,
      <<"a", "b", "c">>,
      <<"5">>,
      <<"5", ".", "1">>,
      <<"5", ".", "1", "2", "5">>,
      <<"-", "1">>,
      <<" ", "5", ".", "5", " ">>,
      <<"+", "5">>,
      <<"n", "a", "n">>,
      <<"i", "n", "f">>,
      <<"-", "i", "n", "f">> }

RateTexts == SeqsUpTo(RateAlphabet, MaxRateLen) \cup RateExamples

\* date texts: something before, a date or a near miss, something after
DatePrefixes ==
    { <<>>,
      <<"1">>,
      <<"o", "n", " ">>,
      <<"3", "1", "/", "1", "2", "/", "2", "0", "2", "3", " ">> }

DateCores ==
    { <<"2", "5", "/", "0", "3", "/", "2", "0", "2", "4">>,
      <<"0", "1", "/", "1", "2", "/", "1", "9", "9", "9">>,
      <<"1", "/", "2", "/", "2", "0", "2", "4">>,
      <<"2", "5", "-", "0", "3", "-", "2", "0", "2", "4">>,
      <<"2", "5", "/", "0", "3", "/", "2", "4">>,
      <<>> }

DateSuffixes ==
    { <<>>,
      <<"5">>,
      <<" ", "0", "1", "/", "0", "1", "/", "2", "0", "2", "5">> }

DateTexts == {p \o c \o f : p \in DatePrefixes, c \in DateCores, f \in DateSuffixes}

HiborRateTexts ==
    { <<"4", ".", "1", "2", "5", "%">>,
      <<"4", ".", "5", "%", " ", "*">>,
      <<"4", ".", "5">>,
      <<"%">> }

HiborYearTexts ==
    { <<"2", "0", "2", "4">>,
      <<"F", "Y", "2", "4">>,
      <<"2", "0", "2", "4", "5">>,
      <<"F", "Y", " ", "2", "0", "2", "4", "/", "2", "5">>,
      <<>> }

HiborDateTexts ==
    { <<>>,
      <<"2", "5">>,
      <<"3", "-", "2", "5">>,
      <<"1", "2", "/", "5">>,
      <<"3", "-", "2", "5", "-", "1">>,
      <<"0", "3", "-", "0", "5">>,
      <<"1", "2", "3", "-", "4">>,
      <<"3", " ", "/", " ", "2", "5", " ">> }

TextInputs ==
    {[kind |-> "rate", rate |-> r, year |-> <<>>, date |-> <<>>] : r \in RateTexts}
    \cup {[kind |-> "date", rate |-> <<>>, year |-> <<>>, date |-> d] : d \in DateTexts}
    \cup {[kind |-> "hibor", rate |-> r, year |-> y, date |-> d] :
               r \in HiborRateTexts, y \in HiborYearTexts, d \in HiborDateTexts}

service == <<phase, pc, driver, openSessions, rates, prime_rate_data, hibor_data,
             pending, response, prior, published, log>>

InitText ==
    /\ phase = "init"
    /\ pc = "idle"
    /\ driver = "None"
    /\ openSessions = 0
    /\ rates = <<>>
    /\ prime_rate_data = <<>>
    /\ hibor_data = NoHiborData
    /\ pending = 0
    /\ response = <<>>
    /\ prior = <<>>
    /\ published = <<>>
    /\ log = NewLog
    /\ fn = "none"
    /\ text \in TextInputs
    /\ result = <<>>

\* cleaned_rate = format_rate(text)
ApplyFormatRate ==
    /\ fn = "none"
    /\ text.kind = "rate"
    /\ fn' = "format_rate"
    /\ result' = format_rate(text.rate)
    /\ UNCHANGED <<text, service>>

\* the match and formatted_date of bank A and of bank C
ApplyDateFromDMY ==
    /\ fn = "none"
    /\ text.kind = "date"
    /\ fn' = "DateFromDMY"
    /\ result' = DateFromDMY(text.date)
    /\ UNCHANGED <<text, service>>

\* the HIBOR try block on a rendered page
ApplyHiborBlock ==
    /\ fn = "none"
    /\ text.kind = "hibor"
    /\ fn' = "HiborBlock"
    /\ result' = HiborBlock(text)
    /\ UNCHANGED <<text, service>>

NextText ==
    \/ ApplyFormatRate
    \/ ApplyDateFromDMY
    \/ ApplyHiborBlock

SpecText == InitText /\ [][NextText]_vars

(***************************************************************************)
(* Properties                                                              *)
(***************************************************************************)
\* the latest cycle has ended
CycleEnded == pc = "idle" /\ log.outcome \in {"returned", "raised"}

\* C1: every get_rates response is the complete snapshot the cache held when
\* the latest cycle began (the placeholder if it held none) or the complete
\* snapshot that cycle assigned to the cache, never a mix of the two.
C1_SnapshotAtomicity ==
    response # <<>> =>
        \/ response[1] = RatesResponse(prior)
        \/ published # <<>> /\ response[1] = published[1]

\* a request that arrived while a cycle was in flight has been answered with
\* the snapshot of that cycle, which differs from the one before it
C1_Witness ==
    /\ response # <<>>
    /\ log.arrivedInCycle
    /\ prior # <<>>
    /\ published # <<>>
    /\ published[1] # prior
    /\ response[1] = published[1]

\* C2: when the page load of one bank raised, the cycle has still published
\* a snapshot, with that bank's record left at "N/A".
C2_PartialFailureIsolation ==
    (CycleEnded /\ log.navFailed \in Banks) =>
        /\ published # <<>>
        /\ rates = published[1]
        /\ rates.primeRate[log.navFailed].primeRateValue = NA

\* C3: when session creation (or its configuration) failed, the cache after
\* the cycle is the cache before it, and get_rates answers from that cache.
C3_SessionFailureKeepsCache ==
    (CycleEnded /\ log.session \in {"createFailed", "configFailed"}) =>
        /\ rates = prior
        /\ response # <<>> => response[1] = RatesResponse(prior)

\* session creation failed in a cycle that began with a published snapshot,
\* and a request has been answered since
C3_Witness ==
    /\ CycleEnded
    /\ log.session = "createFailed"
    /\ prior # <<>>
    /\ response # <<>>

\* C4: when a cycle has ended no browser session is open.
C4_SessionReleased == CycleEnded => openSessions = 0

\* C5: no cycle ends by raising into its caller.
C5_NeverPropagates == log.outcome # "raised"

\* C6: while no cycle has published, every get_rates response is the
\* "Loading..." placeholder with the three bank names in order.
C6_ColdStartPlaceholder ==
    (response # <<>> /\ ~log.everPublished) =>
        /\ response[1] = Placeholder
        /\ \A b \in Banks :
              /\ response[1].primeRate[b].bankName = BankNames[b]
              /\ response[1].primeRate[b].primeRateValue = Loading
              /\ response[1].primeRate[b].bankUpdateDate = Loading
        /\ response[1].HIBOR.HIBOR_value = Loading
        /\ response[1].HIBOR.lastUpdateDate = Loading

\* a request answered after a cycle that ended without publishing
C6_Witness ==
    /\ response # <<>>
    /\ ~log.everPublished
    /\ CycleEnded
    /\ published = <<>>

\* C7: a request waiting while a cycle is in flight can be run at once.
C7_ReadsDoNotWait == (pending > 0 /\ pc # "idle") => ENABLED GetRates

\* C8: after a cycle published, the cache is exactly what it assigned, and
\* every source whose block failed in that cycle is "N/A" in the cache.
C8_OverwriteNotMerge ==
    (pc \in {"finally", "idle"} /\ published # <<>>) =>
        /\ rates = published[1]
        /\ \A b \in Banks \cap log.scrapeFailed :
              /\ rates.primeRate[b].primeRateValue = NA
              /\ rates.primeRate[b].bankUpdateDate = NA
        /\ 4 \in log.scrapeFailed => rates.HIBOR = SeedHiborData

\* a cycle published with a failed bank whose previous record held a value
C8_Witness ==
    /\ CycleEnded
    /\ published # <<>>
    /\ prior # <<>>
    /\ \E b \in Banks \cap log.scrapeFailed : prior.primeRate[b].primeRateValue # NA

\* C9: a step that runs get_rates (it takes a request off the waiting ones)
\* leaves the cache, the cycle position, the driver and the sessions as
\* they were.
C9_GetRatesReadOnly ==
    [][pending' < pending =>
          UNCHANGED <<rates, pc, driver, openSessions, prime_rate_data,
                      hibor_data>>]_vars

\* get_rates has answered from a cache that holds a snapshot
C9_Witness == response # <<>> /\ rates # <<>> /\ response[1] = rates

\* a decimal with exactly two fractional digits
IsTwoDecimals(v) ==
    LET body == IF Len(v) > 0 /\ v[1] = "-" THEN Tail(v) ELSE v
    IN  /\ Len(body) >= 4
        /\ body[Len(body) - 2] = "."
        /\ AllDigits(SubSeq(body, 1, Len(body) - 3))
        /\ AllDigits(SubSeq(body, Len(body) - 1, Len(body)))

InValueDomain(v) == IsTwoDecimals(v) \/ v = NA \/ v = Loading

\* C10: in every response each primeRateValue and the HIBOR_value is a
\* two-decimal number, "N/A" or "Loading...".
C10_ValueDomain ==
    response # <<>> =>
        /\ \A b \in Banks : InValueDomain(response[1].primeRate[b].primeRateValue)
        /\ InValueDomain(response[1].HIBOR.HIBOR_value)

(***************************************************************************)
(* Properties of the text functions                                        *)
(***************************************************************************)
IsDigit(c) == c \in Digits

\* a text without its surrounding blanks and its sign
Unsigned(s) ==
    LET u == StripChar(s, " ")
    IN  IF Len(u) > 0 /\ u[1] \in {"+", "-"} THEN Tail(u) ELSE u

HasMinus(s) == LET u == StripChar(s, " ") IN Len(u) > 0 /\ u[1] = "-"

\* a plain decimal number: digits, at most one point, at least one digit
IsDecimalLiteral(s) ==
    LET b == Unsigned(s)
    IN  /\ \A i \in 1..Len(b) : b[i] \in Digits \cup {"."}
        /\ Cardinality({i \in 1..Len(b) : b[i] = "."}) <= 1
        /\ \E i \in 1..Len(b) : b[i] \in Digits

IsNanInfLiteral(s) ==
    Unsigned(s) \in {<<"n", "a", "n">>, <<"i", "n", "f">>, <<"i", "n", "f", "i", "n", "i", "t", "y">>}

\* the literal is LiteralMant / 10^LiteralFrac
LiteralMant(s) == DigitsToNat(SelectSeq(Unsigned(s), IsDigit))

LiteralFrac(s) ==
    LET b == Unsigned(s)
    IN  Cardinality({i \in 1..Len(b) : \E j \in 1..(i - 1) : b[j] = "."})

\* r, a two-decimal text, is a multiple of 0.01 nearest to the literal s
IsNearest(s, r) ==
    LET h    == DigitsToNat(SelectSeq(r, IsDigit))
        unit == Pow(10, LiteralFrac(s))
        d    == h * unit - 100 * LiteralMant(s)
    IN  2 * (IF d < 0 THEN -d ELSE d) <= unit

\* C11 (as amended): format_rate turns every plain decimal into the nearest
\* number with exactly two fractional digits, keeping its sign, a tie going
\* by the binary double ("5.125" gives "5.12"); "nan" and "inf" come back
\* as "nan" and "inf"; every other text comes back unchanged.
C11_FormatRate ==
    fn = "format_rate" =>
        LET t == text.rate
            r == result
        IN  /\ IsDecimalLiteral(t) =>
                  /\ IsTwoDecimals(r)
                  /\ IsNearest(t, r)
                  /\ HasMinus(t) <=> r[1] = "-"
            /\ IsNanInfLiteral(t) =>
                  r \in {<<"n", "a", "n">>, <<"i", "n", "f">>, <<"-", "i", "n", "f">>}
            /\ (~IsDecimalLiteral(t) /\ ~IsNanInfLiteral(t)) => r = t
            /\ t = <<"5">> => r = <<"5", ".", "0", "0">>
            /\ t = <<"5", ".", "1">> => r = <<"5", ".", "1", "0">>
            /\ t = <<"5", ".", "1", "2", "5">> => r = <<"5", ".", "1", "2">>
            /\ t = <<"-", "1">> => r = <<"-", "1", ".", "0", "0">>

\* format_rate has been applied to "5.125"
C11_Witness ==
    /\ fn = "format_rate"
    /\ text.rate = <<"5", ".", "1", "2", "5">>
    /\ result = <<"5", ".", "1", "2">>

\* C11 (as stated): every text float() accepts comes back with exactly two
\* fractional digits, "5.125" as "5.13"; every other text unchanged.
C11_FormatRateAsStated ==
    fn = "format_rate" =>
        LET t == text.rate
            r == result
        IN  /\ (IsDecimalLiteral(t) \/ IsNanInfLiteral(t)) => IsTwoDecimals(r)
            /\ (~IsDecimalLiteral(t) /\ ~IsNanInfLiteral(t)) => r = t
            /\ t = <<"5">> => r = <<"5", ".", "0", "0">>
            /\ t = <<"5", ".", "1">> => r = <<"5", ".", "1", "0">>
            /\ t = <<"5", ".", "1", "2", "5">> => r = <<"5", ".", "1", "3">>
            /\ t = <<"-", "1">> => r = <<"-", "1", ".", "0", "0">>

\* a text with every digit replaced by "9"
Shape(s) == [k \in 1..Len(s) |-> IF IsDigit(s[k]) THEN "9" ELSE s[k]]

\* the ten characters from position i read as two digits, a slash, two
\* digits, a slash and four digits
IsDMYAt(s, i) ==
    /\ i >= 1
    /\ i + 9 <= Len(s)
    /\ Shape(SubSeq(s, i, i + 9))
           = <<"9", "9", "/", "9", "9", "/", "9", "9", "9", "9">>

\* C17: for a date text holding DD/MM/YYYY anywhere, the date found is the
\* leftmost such match rewritten as YYYY-MM-DD ("25/03/2024" gives
\* "2024-03-25"); for a text holding none it is "N/A".
C17_DateReformat ==
    fn = "DateFromDMY" =>
        LET t == text.date
            r == result
        IN  /\ (\E i \in 1..Len(t) : IsDMYAt(t, i)) =>
                  \E i \in 1..Len(t) :
                      /\ IsDMYAt(t, i)
                      /\ \A j \in 1..(i - 1) : ~IsDMYAt(t, j)
                      /\ Len(r) = 10
                      /\ SubSeq(r, 1, 4) = SubSeq(t, i + 6, i + 9)
                      /\ r[5] = "-"
                      /\ SubSeq(r, 6, 7) = SubSeq(t, i + 3, i + 4)
                      /\ r[8] = "-"
                      /\ SubSeq(r, 9, 10) = SubSeq(t, i, i + 1)
            /\ (\A i \in 1..Len(t) : ~IsDMYAt(t, i)) => r = NA
            /\ t = <<"2", "5", "/", "0", "3", "/", "2", "0", "2", "4">>
                  => r = <<"2", "0", "2", "4", "-", "0", "3", "-", "2", "5">>

\* a text with two matches has been reformatted from its first one
C17_Witness ==
    /\ fn = "DateFromDMY"
    /\ text.date = <<"3", "1", "/", "1", "2", "/", "2", "0", "2", "3", " ",
                     "2", "5", "/", "0", "3", "/", "2", "0", "2", "4">>
    /\ result = <<"2", "0", "2", "3", "-", "1", "2", "-", "3", "1">>

\* positions where a maximal run of digits begins
RunStarts(s) == {i \in 1..Len(s) : IsDigit(s[i]) /\ (i = 1 \/ ~IsDigit(s[i - 1]))}

\* the maximal run of digits that begins at position i
RunFrom(s, i) ==
    SubSeq(s, i, CHOOSE j \in i..Len(s) :
                     /\ \A k \in i..j : IsDigit(s[k])
                     /\ j = Len(s) \/ ~IsDigit(s[j + 1]))

\* the leftmost four consecutive digits of a text
FirstYear(s) ==
    LET at == {i \in 1..Len(s) :
                  i + 3 <= Len(s) /\ Shape(SubSeq(s, i, i + 3)) = <<"9", "9", "9", "9">>}
    IN  IF at = {} THEN <<>>
        ELSE LET i == CHOOSE x \in at : \A y \in at : x <= y IN SubSeq(s, i, i + 3)

\* C15: when the HIBOR rate cell shows "%" and the header cell holds four
\* consecutive digits, lastUpdateDate is year-first-second, each number
\* written with at least two digits, exactly when the date cell holds two
\* numbers; with any other count it is "N/A"; either way HIBOR_value is the
\* formatted rate.
C15_HiborDateComposition ==
    (fn = "HiborBlock" /\ Contains(text.rate, "%") /\ FirstYear(text.year) # <<>>) =>
        LET starts == RunStarts(text.date)
            first  == CHOOSE x \in starts : \A y \in starts : x <= y
            second == CHOOSE x \in starts : \A y \in starts : y <= x
            raw    == StripChar(text.rate, "%")
        IN  /\ result.ok
            /\ Cardinality(starts) = 2 <=> result.date # NA
            /\ Cardinality(starts) = 2 =>
                  result.date = FirstYear(text.year) \o <<"-">>
                                \o Pad2(DigitsToNat(RunFrom(text.date, first)))
                                \o <<"-">>
                                \o Pad2(DigitsToNat(RunFrom(text.date, second)))
            /\ IF IsDecimalLiteral(raw)
               THEN IsTwoDecimals(result.value) /\ IsNearest(raw, result.value)
               ELSE result.value = raw

\* the HIBOR block has composed a date from "2024" and "3-25"
C15_Witness ==
    /\ fn = "HiborBlock"
    /\ text.year = <<"2", "0", "2", "4">>
    /\ text.date = <<"3", "-", "2", "5">>
    /\ text.rate = <<"4", ".", "1", "2", "5", "%">>
    /\ result = [ok |-> TRUE, value |-> <<"4", ".", "1", "2">>,
                 date |-> <<"2", "0", "2", "4", "-", "0", "3", "-", "2", "5">>]

\* the date pattern a source's block looks for is not on the page
DatePatternAbsent(s, page) ==
    CASE s = 1 -> \A i \in 1..Len(page.date) : ~IsDMYAt(page.date, i)
      [] s = 2 -> MatchesYMD(page.date) = {}
      [] s = 3 -> \A i \in 1..Len(page.date) : ~IsDMYAt(page.date, i)
      [] s = 4 -> \/ FirstYear(page.year) = <<>>
                  \/ Cardinality(RunStarts(page.date)) # 2

\* the page lets the block get as far as the rate element: bank C's wait
\* for "/" and the HIBOR wait for "%" in the rate cell have passed
RateElementRead(s, page) ==
    CASE s = 3 -> Contains(page.date, "/")
      [] s = 4 -> Contains(page.rate, "%")
      [] OTHER -> TRUE

\* the formatted rate of the page
FoundRate(s, page) ==
    format_rate(IF s \in {1, 4} THEN StripChar(page.rate, "%") ELSE page.rate)

\* the record of source s in a snapshot
RecordOf(snapshot, s) ==
    IF s = 4
    THEN [value |-> snapshot.HIBOR.HIBOR_value, date |-> snapshot.HIBOR.lastUpdateDate]
    ELSE [value |-> snapshot.primeRate[s].primeRateValue,
          date  |-> snapshot.primeRate[s].bankUpdateDate]

\* C12: in a published snapshot, a source whose page showed the rate but not
\* the date pattern (for HIBOR: no four-digit year in the header, or not two
\* numbers in the date cell) has the date "N/A" and the formatted rate.
C12_DateAbsentRateKept ==
    \A s \in Sources :
        ( /\ published # <<>>
          /\ log.page[s] # <<>>
          /\ DatePatternAbsent(s, log.page[s][1])
          /\ RateElementRead(s, log.page[s][1]) ) =>
            RecordOf(published[1], s)
                = [value |-> FoundRate(s, log.page[s][1]), date |-> NA]

\* C13: when a source's block failed after its page loaded, the cycle has
\* attempted every later source and published a snapshot in which that
\* source's record has "N/A" in both fields.
C13_FieldFailureLocalized ==
    (CycleEnded /\ log.scrapeFailed # {}) =>
        /\ \A s \in log.scrapeFailed : \A t \in Sources :
               t > s => (t \in log.navOk \/ log.navFailed = t)
        /\ published # <<>>
        /\ \A s \in log.scrapeFailed :
               RecordOf(published[1], s) = [value |-> NA, date |-> NA]

\* C14: at any time at most one cycle is in flight and at most one browser
\* session is open at the remote endpoint.
C14_NonOverlappingCycles ==
    /\ log.inFlight <= 1
    /\ openSessions <= 1

\* three prime-rate records named bank A, bank B, bank C in that order, each
\* with its three fields, and one HIBOR record with its two fields
HasSnapshotShape(r) ==
    /\ DOMAIN r = {"primeRate", "HIBOR"}
    /\ DOMAIN r.primeRate = 1..3
    /\ \A i \in 1..3 :
          /\ DOMAIN r.primeRate[i] = {"bankName", "primeRateValue", "bankUpdateDate"}
          /\ r.primeRate[i].bankName = BankNames[i]
    /\ DOMAIN r.HIBOR = {"HIBOR_value", "lastUpdateDate"}

\* C16: every get_rates response, and every non-empty cache, holds exactly
\* three prime-rate records named bank A, bank B, bank C in that order and
\* exactly one HIBOR record.
C16_SnapshotShape ==
    /\ response # <<>> => HasSnapshotShape(response[1])
    /\ rates # <<>> => HasSnapshotShape(rates)

\* a cycle in which a source's block failed has published, and get_rates has
\* answered with its snapshot
C16_Witness ==
    /\ response # <<>>
    /\ published # <<>>
    /\ log.scrapeFailed # {}
    /\ response[1] = published[1]

\* C18: a cycle has published exactly when its session was created and
\* configured and all four page loads returned; when a page load raised
\* (HIBOR's included) the cache is what it was before the cycle and the
\* cycle's records are gone.
C18_PublicationCondition ==
    CycleEnded =>
        /\ published # <<>> <=> (log.session = "configured" /\ log.navOk = Sources)
        /\ published # <<>> => rates = published[1]
        /\ log.navFailed # 0 =>
              /\ published = <<>>
              /\ rates = prior
              /\ prime_rate_data = <<>>
              /\ hibor_data = NoHiborData

\* the HIBOR page load raised after bank A had been scraped, in a cycle that
\* began with a snapshot in the cache
C18_Witness ==
    /\ CycleEnded
    /\ log.navFailed = 4
    /\ log.page[1] # <<>>
    /\ 1 \notin log.scrapeFailed
    /\ prior # <<>>
    /\ rates = prior

\* the sources whose record the latest cycle left as it was seeded
LeftAtSeed == {s \in Sources : s \in log.scrapeFailed \/ log.page[s] = <<>>}

\* C19: once a cycle has published, every get_rates response is the cached
\* snapshot and not the "Loading..." placeholder, whatever cycles failed or
\* were aborted since; and in a published snapshot no field that was left
\* as the cycle seeded it, and no date field, holds "Loading...".
C19_PlaceholderNeverAgain ==
    /\ log.everPublished => rates # <<>>
    /\ (log.everPublished /\ response # <<>>) =>
          /\ response[1] = rates
          /\ response[1] # Placeholder
          /\ response[1] \in {prior} \cup {published[i] : i \in 1..Len(published)}
    /\ published # <<>> =>
          \A s \in Sources :
              /\ RecordOf(published[1], s).date # Loading
              /\ s \in LeftAtSeed =>
                    RecordOf(published[1], s) = [value |-> NA, date |-> NA]

\* after a published snapshot a later cycle was aborted by a page load that
\* raised, and get_rates has answered since
C19_Witness ==
    /\ log.everPublished
    /\ CycleEnded
    /\ log.navFailed # 0
    /\ published = <<>>
    /\ response # <<>>
    /\ response[1] = rates

====
